---- MODULE Spec2Model ----
(***************************************************************************)
(* InfraConfig (fbpcs/private_computation/entity/infra_config.py): a       *)
(* dataclass whose fields are governed by field metadata -- immutable      *)
(* fields and hooks -- through DataclassMutabilityMixin.                   *)
(*                                                                         *)
(* The hooks, their triggers, their conditions and actions, the field      *)
(* declarations and their defaults are those of infra_config.py.           *)
(* The interception of field writes and the dispatch of hooks              *)
(* (fbpcs.common.entity.dataclasses_hooks / dataclasses_mutability) follow *)
(* sections 4.2 and 4.3 of the specification: CheckWritable, RunHooks,     *)
(* RunInitHooks, NewInfraConfig and SetAttr, where a write whose           *)
(* POST_UPDATE hook raises is undone.                                      *)
(***************************************************************************)
EXTENDS Integers, Sequences, FiniteSets, TLC

VARIABLES
    state,      \* lifecycle state of the entity: "CONSTRUCTING" or "READY"
    entity,     \* the entity the caller holds: field name -> value, or NoEntity
    now,        \* the wall clock, in seconds
    calls,      \* number of field-update calls made on the entity
    op,         \* the last call: [name, field, value]
    result,     \* outcome of the last call: "ok" or the error raised
    log,        \* what the last call did, in order
    status_writes, \* number of successful status writes on the entity
    rejected,   \* number of field-update calls on the entity that raised
    fn          \* the last call of a utility function: [name, args, ret]

vars == <<state, entity, now, calls, op, result, log, status_writes, rejected,
          fn>>

---------------------------------------------------------------------------
(* Bounds *)

MaxTime == 2

MaxCalls == 2

---------------------------------------------------------------------------
(* Values *)

None == "None"

NoEntity == [absent |-> TRUE]

Member(enum, value) == [enum |-> enum, value |-> value]

\* class PrivateComputationRole(Enum)
PrivateComputationRole ==
    { Member("PrivateComputationRole", v) : v \in {"PUBLISHER", "PARTNER"} }

\* class PrivateComputationGameType(Enum)
PrivateComputationGameType ==
    { Member("PrivateComputationGameType", v) : v \in {"LIFT", "ATTRIBUTION"} }

\* PrivateComputationInstanceStatus: the status enum
PrivateComputationInstanceStatus ==
    { Member("PrivateComputationInstanceStatus", v) : v \in {"PENDING", "RUNNING"} }

PENDING == Member("PrivateComputationInstanceStatus", "PENDING")

RUNNING == Member("PrivateComputationInstanceStatus", "RUNNING")

PCSFeature == { Member("PCSFeature", v) : v \in {"feature_a", "feature_b"} }

\* @dataclass class StatusUpdate
StatusUpdate(status, status_update_ts) ==
    [status |-> status, status_update_ts |-> status_update_ts]

\* the container counts callers use
Counts == {2, 5, 6}

---------------------------------------------------------------------------
(* The field declarations of InfraConfig *)

\* fields in declaration order
FieldOrder ==
    << "instance_id", "role", "status", "status_update_ts", "instances",
       "game_type", "num_pid_containers", "num_mpc_containers",
       "num_files_per_mpc_container", "status_updates", "tier",
       "pcs_features", "pce_config", "_stage_flow_cls_name", "retry_counter",
       "creation_ts", "end_ts", "mpc_compute_concurrency" >>

Fields == { FieldOrder[i] : i \in 1..Len(FieldOrder) }

\* ImmutableFields with creation_ts declared by a plain field(default_factory=...)
ImmutableFields_creation_ts_mutable == {"instance_id", "game_type", "tier"}

\* ImmutableFields with tier declared by a plain field(default=None)
ImmutableFields_tier_mutable == {"instance_id", "game_type", "creation_ts"}

\* fields declared with immutable_field()
ImmutableFields == {"instance_id", "game_type", "tier", "creation_ts"}

\* fields with a default or default_factory
DefaultedFields ==
    { "tier", "pcs_features", "pce_config", "_stage_flow_cls_name",
      "retry_counter", "creation_ts", "end_ts", "mpc_compute_concurrency" }

\* the default of a field the caller omitted; creation_ts reads the clock
DefaultValue(f, t) ==
    CASE f = "tier" -> None
      [] f = "pcs_features" -> {}
      [] f = "pce_config" -> None
      [] f = "_stage_flow_cls_name" -> "PrivateComputationStageFlow"
      [] f = "retry_counter" -> 0
      [] f = "creation_ts" -> t
      [] f = "end_ts" -> 0
      [] f = "mpc_compute_concurrency" -> 1

HookEventType == {"POST_INIT", "POST_UPDATE"}

\* post_status_hook also triggered by POST_INIT
post_status_hook_on_init ==
    [name |-> "post_status_hook", triggers |-> {"POST_INIT", "POST_UPDATE"}]

\* post_status_hook = UpdateGenericHook(triggers=[POST_UPDATE], update_function=post_update_status)
post_status_hook ==
    [name |-> "post_status_hook", triggers |-> {"POST_UPDATE"}]

\* num_pid_mpc_containers_hook = GenericHook(raise_containers_error,
\*     triggers=[POST_INIT, POST_UPDATE], hook_condition=not_valid_containers)
num_pid_mpc_containers_hook ==
    [name |-> "num_pid_mpc_containers_hook",
     triggers |-> {"POST_INIT", "POST_UPDATE"}]

\* FieldHooks with retry_counter carrying the status hook as well
FieldHooks_retry_counter_hooked(f) ==
    CASE f = "status" -> << post_status_hook >>
      [] f = "retry_counter" -> << post_status_hook >>
      [] f = "num_pid_containers" -> << num_pid_mpc_containers_hook >>
      [] f = "num_mpc_containers" -> << num_pid_mpc_containers_hook >>
      [] OTHER -> << >>

\* FieldHooks with num_mpc_containers declared without the container hook
FieldHooks_pid_only(f) ==
    CASE f = "status" -> << post_status_hook >>
      [] f = "num_pid_containers" -> << num_pid_mpc_containers_hook >>
      [] OTHER -> << >>

\* the hooks in a field's metadata, in order
FieldHooks(f) ==
    CASE f = "status" -> << post_status_hook >>
      [] f = "num_pid_containers" -> << num_pid_mpc_containers_hook >>
      [] f = "num_mpc_containers" -> << num_pid_mpc_containers_hook >>
      [] OTHER -> << >>

---------------------------------------------------------------------------
(* The hook functions *)

hasattr(obj, name) == name \in DOMAIN obj

\* append_status_updates skipping a status equal to the last recorded one
append_status_updates_dedup(obj) ==
    LET pair == StatusUpdate(obj["status"], obj["status_update_ts"])
        history == obj["status_updates"]
    IN  IF history # << >> /\ history[Len(history)].status = pair.status
        THEN obj
        ELSE [obj EXCEPT !["status_updates"] = Append(@, pair)]

\* called in post_status_hook
append_status_updates(obj) ==
    LET pair == StatusUpdate(obj["status"], obj["status_update_ts"])
    IN  [obj EXCEPT !["status_updates"] = Append(@, pair)]

\* post_update_status appending before it refreshes the timestamp
post_update_status_append_first(obj, t) ==
    [append_status_updates(obj) EXCEPT !["status_update_ts"] = t]

\* called in post_status_hook, whenever status is updated; t is the clock reading
post_update_status(obj, t) ==
    append_status_updates([obj EXCEPT !["status_update_ts"] = t])

\* not_valid_containers as the comment above the hook words it:
\* "if num_pid_containers < num_mpc_containers => raise an error"
not_valid_containers_as_commented(obj) ==
    IF hasattr(obj, "num_pid_containers") /\ hasattr(obj, "num_mpc_containers")
    THEN obj["num_pid_containers"] < obj["num_mpc_containers"]
    ELSE FALSE

\* not_valid_containers tolerating one container too many
not_valid_containers_off_by_one(obj) ==
    IF hasattr(obj, "num_pid_containers") /\ hasattr(obj, "num_mpc_containers")
    THEN obj["num_pid_containers"] > obj["num_mpc_containers"] + 1
    ELSE FALSE

\* not_valid_containers rejecting equal counts
not_valid_containers_strict(obj) ==
    IF hasattr(obj, "num_pid_containers") /\ hasattr(obj, "num_mpc_containers")
    THEN obj["num_pid_containers"] >= obj["num_mpc_containers"]
    ELSE FALSE

\* hook_condition of num_pid_mpc_containers_hook
not_valid_containers(obj) ==
    IF hasattr(obj, "num_pid_containers") /\ hasattr(obj, "num_mpc_containers")
    THEN obj["num_pid_containers"] > obj["num_mpc_containers"]
    ELSE FALSE

\* hook_function of num_pid_mpc_containers_hook: always raises
raise_containers_error(obj) == "ValueError"

\* whether the hook's condition holds on obj (a hook without one always runs)
HookCondition(h, obj) ==
    IF h.name = "num_pid_mpc_containers_hook"
    THEN not_valid_containers(obj)
    ELSE TRUE

\* the hook's action on obj at clock reading t: the object after it and the error raised
HookAction(h, obj, t) ==
    IF h.name = "num_pid_mpc_containers_hook"
    THEN [obj |-> obj, error |-> raise_containers_error(obj)]
    ELSE [obj |-> post_update_status(obj, t), error |-> "ok"]

---------------------------------------------------------------------------
(* Mutability enforcement and hook dispatch *)

Event(event, on) == [event |-> event, on |-> on]

\* the mutability check of a write to field f of obj
CheckWritable(obj, f) ==
    IF f \in ImmutableFields /\ hasattr(obj, f)
    THEN "ImmutableFieldViolation"
    ELSE "ok"

\* run, in order, the hooks of one field that carry the trigger and whose
\* condition holds on the current object; stop at the first error
RECURSIVE RunHooks(_, _, _, _)
RunHooks(hooks, trigger, ctx, t) ==
    IF hooks = << >> \/ ctx.error # "ok"
    THEN ctx
    ELSE LET h == Head(hooks)
         IN  IF trigger \notin h.triggers
             THEN RunHooks(Tail(hooks), trigger, ctx, t)
             ELSE LET holds == HookCondition(h, ctx.obj)
                      seen == Append(ctx.log, Event("condition", h.name))
                  IN  IF ~holds
                      THEN RunHooks(Tail(hooks), trigger,
                                    [ctx EXCEPT !.log = seen], t)
                      ELSE LET a == HookAction(h, ctx.obj, t)
                           IN  RunHooks(Tail(hooks), trigger,
                                        [obj |-> a.obj, error |-> a.error,
                                         log |-> Append(seen, Event("action", h.name))],
                                        t)

\* the POST_INIT dispatch: the hooks of every field, in declaration order
RECURSIVE RunInitHooks(_, _, _)
RunInitHooks(fields, ctx, t) ==
    IF fields = << >> \/ ctx.error # "ok"
    THEN ctx
    ELSE RunInitHooks(Tail(fields),
                      RunHooks(FieldHooks(Head(fields)), "POST_INIT", ctx, t), t)

\* InfraConfig(**args) at clock reading t: plain writes of the supplied and
\* default values, then the POST_INIT hooks
NewInfraConfig(args, t) ==
    LET obj == [f \in Fields |->
                    IF f \in DOMAIN args THEN args[f] ELSE DefaultValue(f, t)]
    IN  RunInitHooks(FieldOrder,
                     [obj |-> obj, error |-> "ok",
                      log |-> << Event("init", "InfraConfig") >>], t)

\* obj.f = v on a READY entity at clock reading t: the mutability check, the
\* write, the POST_UPDATE hooks of f; a raising hook undoes the write
SetAttr(obj, f, v, t) ==
    IF CheckWritable(obj, f) # "ok"
    THEN [obj |-> obj, error |-> CheckWritable(obj, f),
          log |-> << Event("check", f) >>]
    ELSE LET written == [obj EXCEPT ![f] = v]
             ran == RunHooks(FieldHooks(f), "POST_UPDATE",
                             [obj |-> written, error |-> "ok",
                              log |-> << Event("check", f), Event("write", f) >>],
                             t)
         IN  IF ran.error = "ok"
             THEN ran
             ELSE [obj |-> [ran.obj EXCEPT ![f] = obj[f]],
                   error |-> ran.error,
                   log |-> Append(ran.log, Event("rollback", f))]

---------------------------------------------------------------------------
(* The caller's inputs *)

RequiredFields == Fields \ DefaultedFields

\* the constructor calls made: a fresh entity with an empty history, every
\* default and any pair of counts, and an entity with a history, a tier and a
\* creation time
ConstructorCases ==
    { [status |-> PENDING, status_updates |-> << >>, given |-> {},
       counts |-> Counts \X Counts],
      [status |-> RUNNING, status_updates |-> << StatusUpdate(PENDING, 1) >>,
       given |-> {"tier", "creation_ts"}, counts |-> {<<2, 5>>, <<6, 5>>}] }

\* the constructor's arguments: the required fields, and in `given` the
\* defaulted fields the caller supplies
ConstructorArgs(s, p, m, h, given) ==
    [f \in RequiredFields \cup given |->
        CASE f = "instance_id" -> "id1"
          [] f = "role" -> Member("PrivateComputationRole", "PUBLISHER")
          [] f = "status" -> s
          [] f = "status_update_ts" -> 0
          [] f = "instances" -> << >>
          [] f = "game_type" -> Member("PrivateComputationGameType", "LIFT")
          [] f = "num_pid_containers" -> p
          [] f = "num_mpc_containers" -> m
          [] f = "num_files_per_mpc_container" -> 1
          [] f = "status_updates" -> h
          [] f = "tier" -> "rc"
          [] f = "creation_ts" -> 0]

\* the values a caller writes to a field
UpdateValues(f) ==
    CASE f = "instance_id" -> {"id2"}
      [] f = "role" -> {Member("PrivateComputationRole", "PARTNER")}
      [] f = "status" -> PrivateComputationInstanceStatus
      [] f = "status_update_ts" -> {MaxTime}
      [] f = "instances" -> {<< "stage_state_instance" >>}
      [] f = "game_type" -> {Member("PrivateComputationGameType", "ATTRIBUTION")}
      [] f = "num_pid_containers" -> Counts
      [] f = "num_mpc_containers" -> Counts
      [] f = "num_files_per_mpc_container" -> {2}
      [] f = "status_updates" -> {<< >>}
      [] f = "tier" -> {"canary"}
      [] f = "pcs_features" -> {{Member("PCSFeature", "feature_a")}}
      [] f = "pce_config" -> {"pce_config"}
      [] f = "_stage_flow_cls_name" -> {"PrivateComputationDecoupledStageFlow"}
      [] f = "retry_counter" -> {1}
      [] f = "creation_ts" -> {MaxTime}
      [] f = "end_ts" -> {1}
      [] f = "mpc_compute_concurrency" -> {2}

---------------------------------------------------------------------------
(* The state machine *)

NoOp == [name |-> "none", field |-> "none", value |-> None]

NoCall == [name |-> "none"]

Init ==
    /\ state = "CONSTRUCTING"
    /\ entity = NoEntity
    /\ now = 0
    /\ calls = 0
    /\ op = NoOp
    /\ result = "none"
    /\ log = << >>
    /\ status_writes = 0
    /\ rejected = 0
    /\ fn = NoCall

\* the wall clock is read anew: datetime.now() and time.time() follow the
\* system clock, which runs on and can be set back
Tick ==
    /\ \E t \in 0..MaxTime :
          /\ t # now
          /\ now' = t
    /\ UNCHANGED <<state, entity, calls, op, result, log, status_writes,
                   rejected, fn>>

\* the caller constructs the entity; a failed construction returns no entity
Construct ==
    /\ state = "CONSTRUCTING"
    /\ \E c \in ConstructorCases : \E pm \in c.counts :
        LET args == ConstructorArgs(c.status, pm[1], pm[2], c.status_updates,
                                    c.given)
            r == NewInfraConfig(args, now)
        IN  /\ op' = [name |-> "construct", field |-> "none", value |-> args]
            /\ result' = r.error
            /\ log' = r.log
            /\ IF r.error = "ok"
               THEN state' = "READY" /\ entity' = r.obj
               ELSE state' = "CONSTRUCTING" /\ entity' = NoEntity
    /\ status_writes' = 0
    /\ UNCHANGED <<now, calls, rejected, fn>>

\* the caller writes one field of the READY entity
SetField ==
    /\ state = "READY"
    /\ calls < MaxCalls
    /\ \E f \in Fields : \E v \in UpdateValues(f) :
        \E r \in {SetAttr(entity, f, v, now)} :
            /\ op' = [name |-> "set", field |-> f, value |-> v]
            /\ result' = r.error
            /\ log' = r.log
            /\ entity' = r.obj
            /\ status_writes' = IF f = "status" /\ r.error = "ok"
                                THEN status_writes + 1
                                ELSE status_writes
            /\ rejected' = IF r.error = "ok" THEN rejected ELSE rejected + 1
    /\ calls' = calls + 1
    /\ UNCHANGED <<state, now, fn>>

Next == Tick \/ Construct \/ SetField

Spec == Init /\ [][Next]_vars

---------------------------------------------------------------------------
(* Properties *)

\* the step is a field-update call on a READY entity
UpdateCall == state = "READY" /\ calls' = calls + 1

\* C1: every READY entity, after any sequence of accepted and rejected
\* updates, has num_pid_containers <= num_mpc_containers.
C1_ReadyCountsValid ==
    state = "READY" =>
        entity["num_pid_containers"] <= entity["num_mpc_containers"]

\* a READY entity on which an update of a container count was just rejected
C1_Witness ==
    /\ state = "READY"
    /\ op.name = "set"
    /\ op.field \in {"num_pid_containers", "num_mpc_containers"}
    /\ result = "ValueError"

\* C2: an update of num_pid_containers on a READY entity to a value greater
\* than num_mpc_containers fails with the validation error and leaves
\* num_pid_containers at its value from before the call.
C2_RejectedPidUpdateKeepsValue ==
    [][ ( /\ UpdateCall
          /\ op'.field = "num_pid_containers"
          /\ op'.value > entity["num_mpc_containers"] )
        => ( /\ result' = "ValueError"
             /\ state' = "READY"
             /\ entity'["num_pid_containers"] = entity["num_pid_containers"] )
      ]_vars

\* constructed with 2 and 5, the update of num_pid_containers to 6 was rejected
C2_Witness ==
    /\ state = "READY"
    /\ op.name = "set"
    /\ op.field = "num_pid_containers"
    /\ op.value = 6
    /\ result = "ValueError"
    /\ entity["num_pid_containers"] = 2
    /\ entity["num_mpc_containers"] = 5

\* C3: every write to instance_id, game_type, tier or creation_ts on a READY
\* entity fails with the immutability error and leaves the whole entity
\* unchanged, however often it is repeated.
C3_ImmutableWriteRejected ==
    [][ ( /\ UpdateCall
          /\ op'.field \in {"instance_id", "game_type", "tier", "creation_ts"} )
        => ( /\ result' = "ImmutableFieldViolation"
             /\ state' = "READY"
             /\ entity' = entity )
      ]_vars

\* a write to an immutable field was rejected for the second time
C3_Witness ==
    /\ state = "READY"
    /\ calls >= 2
    /\ op.name = "set"
    /\ op.field = "tier"
    /\ result = "ImmutableFieldViolation"
    /\ log = << Event("check", "tier") >>

\* C4: construction with num_pid_containers > num_mpc_containers fails with
\* the validation error and returns no entity; construction with
\* num_pid_containers <= num_mpc_containers yields a READY entity.
C4_ConstructionChecksCounts ==
    op.name = "construct" =>
        IF op.value["num_pid_containers"] > op.value["num_mpc_containers"]
        THEN result = "ValueError" /\ state = "CONSTRUCTING" /\ entity = NoEntity
        ELSE /\ result = "ok"
             /\ state = "READY"
             /\ entity # NoEntity
             /\ entity["num_pid_containers"] = op.value["num_pid_containers"]
             /\ entity["num_mpc_containers"] = op.value["num_mpc_containers"]

\* a construction with 6 and 5 has just failed
C4_Witness ==
    /\ op.name = "construct"
    /\ op.value["num_pid_containers"] = 6
    /\ op.value["num_mpc_containers"] = 5
    /\ result = "ValueError"
    /\ entity = NoEntity

\* a is a prefix of b
IsPrefix(a, b) == Len(a) <= Len(b) /\ SubSeq(b, 1, Len(a)) = a

\* the timestamps of a history never decrease
NonDecreasing(history) ==
    \A i \in 1..(Len(history) - 1) :
        history[i + 1].status_update_ts >= history[i].status_update_ts

\* C5 as stated: after N successful status writes status_updates has exactly
\* N entries, with non-decreasing timestamps.
C5_Original ==
    state = "READY" =>
        /\ Len(entity["status_updates"]) = status_writes
        /\ NonDecreasing(entity["status_updates"])

\* C5, amended: every successful status write appends exactly one entry to
\* status_updates, the new status with the wall-clock reading of that write,
\* and leaves the earlier entries as they were; the timestamps are therefore
\* ordered as the clock readings are.
C5_StatusWriteAppendsOne ==
    [][ ( /\ UpdateCall
          /\ op'.field = "status"
          /\ result' = "ok" )
        => LET before == entity["status_updates"]
               after == entity'["status_updates"]
           IN  /\ Len(after) = Len(before) + 1
               /\ IsPrefix(before, after)
               /\ after[Len(after)] = StatusUpdate(op'.value, now)
               /\ status_writes' = status_writes + 1
      ]_vars

\* two status writes on an entity constructed with one supplied entry, the
\* second at an earlier clock reading than the first
C5_Witness ==
    /\ state = "READY"
    /\ op.name = "set"
    /\ op.field = "status"
    /\ status_writes = 2
    /\ Len(entity["status_updates"]) = 3
    /\ entity["status_updates"][2].status_update_ts = 2
    /\ entity["status_updates"][3].status_update_ts = 1

\* C6 as stated: construction with status=PENDING at t0 yields
\* status_updates = [(PENDING, t0)], and the update status=RUNNING at t1 then
\* yields [(PENDING, t0), (RUNNING, t1)] with status_update_ts = t1.
C6_Original ==
    /\ ( /\ state = "READY"
         /\ op.name = "construct"
         /\ op.value["status"] = PENDING )
       => \E t0 \in 0..MaxTime :
             entity["status_updates"] = << StatusUpdate(PENDING, t0) >>
    /\ ( /\ state = "READY"
         /\ calls = 1
         /\ op.name = "set"
         /\ op.field = "status"
         /\ op.value = RUNNING
         /\ entity["tier"] = None )
       => \E t0 \in 0..MaxTime : \E t1 \in t0..MaxTime :
             /\ entity["status_updates"] =
                    << StatusUpdate(PENDING, t0), StatusUpdate(RUNNING, t1) >>
             /\ entity["status_update_ts"] = t1

\* C6, amended: construction with status=PENDING leaves status_updates as the
\* caller supplied it (no entry is added for the initial status); the update
\* status=RUNNING at t1 then appends (RUNNING, t1) to it and sets
\* status_update_ts to t1.
C6_HistoryStartsAsSupplied ==
    [][ /\ ( ( /\ state' = "READY"
               /\ calls' = 0
               /\ op'.name = "construct" )
             => /\ entity'["status"] = op'.value["status"]
                /\ entity'["status_updates"] = op'.value["status_updates"] )
        /\ ( ( /\ UpdateCall
               /\ calls = 0
               /\ entity["status"] = PENDING
               /\ op'.field = "status"
               /\ op'.value = RUNNING )
             => /\ result' = "ok"
                /\ entity'["status"] = RUNNING
                /\ entity'["status_updates"] =
                      Append(entity["status_updates"], StatusUpdate(RUNNING, now))
                /\ entity'["status_update_ts"] = now )
      ]_vars

\* constructed at time 0 with status=PENDING and an empty history, then
\* updated to RUNNING at time 1
C6_Witness ==
    /\ state = "READY"
    /\ calls = 1
    /\ op.name = "set"
    /\ op.field = "status"
    /\ entity["creation_ts"] = 0
    /\ entity["tier"] = None
    /\ entity["status_updates"] = << StatusUpdate(RUNNING, 1) >>
    /\ entity["status_update_ts"] = 1

\* C7: status_updates is append-only: across every operation on a READY
\* entity its old value is a prefix of its new value.
C7_AppendOnly ==
    [][ (state = "READY" /\ state' = "READY")
        => IsPrefix(entity["status_updates"], entity'["status_updates"]) ]_vars

\* how often a call evaluated the container-count condition
ConditionEvaluations(l) ==
    Cardinality({ i \in 1..Len(l) :
                    l[i] = Event("condition", "num_pid_mpc_containers_hook") })

\* C8: an update of either container count on a READY entity evaluates the
\* container-count condition exactly once, and an update of
\* num_mpc_containers to a value below num_pid_containers fails.
C8_CountCheckRunsOnce ==
    [][ ( /\ UpdateCall
          /\ op'.field \in {"num_pid_containers", "num_mpc_containers"} )
        => /\ ConditionEvaluations(log') = 1
           /\ ( ( /\ op'.field = "num_mpc_containers"
                  /\ op'.value < entity["num_pid_containers"] )
                => result' = "ValueError" /\ state' = "READY" )
      ]_vars

\* num_mpc_containers was lowered to 2 under num_pid_containers = 5 and rejected
C8_Witness ==
    /\ state = "READY"
    /\ op.name = "set"
    /\ op.field = "num_mpc_containers"
    /\ op.value = 2
    /\ entity["num_pid_containers"] = 5
    /\ result = "ValueError"
    /\ ConditionEvaluations(log) = 1

\* C9: on a READY entity status_update_ts changes only as part of a status
\* update.
C9_TimestampOwnedByStatusHook ==
    [][ ( /\ state = "READY"
          /\ state' = "READY"
          /\ entity'["status_update_ts"] # entity["status_update_ts"] )
        => (UpdateCall /\ op'.field = "status") ]_vars

---------------------------------------------------------------------------
(* Python values of the utility functions: strings are sequences of          *)
(* characters, every value carries its type                                  *)

PyNone == [kind |-> "NoneType", val |-> << >>]

PyBool(b) == [kind |-> "bool", val |-> b]

PyInt(n) == [kind |-> "int", val |-> n]

PyStr(cs) == [kind |-> "str", val |-> cs]

\* a list of values
PyList(xs) == [kind |-> "list", val |-> xs]

\* a dict: its items [key, val] in insertion order, every key a str
PyDict(items) == [kind |-> "dict", val |-> items]

Item(k, v) == [key |-> k, val |-> v]

Digit(d) ==
    CASE d = 0 -> "0" [] d = 1 -> "1" [] d = 2 -> "2" [] d = 3 -> "3"
      [] d = 4 -> "4" [] d = 5 -> "5" [] d = 6 -> "6" [] d = 7 -> "7"
      [] d = 8 -> "8" [] d = 9 -> "9"

\* str(n) of an int
RECURSIVE IntToStr(_)
IntToStr(n) ==
    IF n < 0 THEN << "-" >> \o IntToStr(0 - n)
    ELSE IF n < 10 THEN << Digit(n) >>
    ELSE IntToStr(n \div 10) \o << Digit(n % 10) >>

\* the text an f-string renders for a value, "{value}": str(value) of None,
\* a bool, an int or a str
Format(v) ==
    CASE v.kind = "NoneType" -> << "N", "o", "n", "e" >>
      [] v.kind = "bool" -> IF v.val THEN << "T", "r", "u", "e" >>
                            ELSE << "F", "a", "l", "s", "e" >>
      [] v.kind = "int" -> IntToStr(v.val)
      [] v.kind = "str" -> v.val

\* A str is the sequence of its characters.  A character of ASCII is the
\* one-character string; any other character is the string of U+ and its
\* code point in four hexadecimal digits ("U+00E9"), which reads the same
\* under every character encoding.
\*
\* The separators of str.split() without an argument are the 29 characters
\* for which str.isspace() holds: U+0009..U+000D, U+001C..U+001F, U+0020,
\* then U+0085, U+00A0, U+1680, U+2000..U+200A, U+2028, U+2029, U+202F,
\* U+205F and U+3000.  U+000B and U+001C..U+001F have no escape and stand
\* as the characters themselves on the second line.
Whitespace ==
    { "\t", "\n", "\f", "\r", " ",
      "", "", "", "", "",
      "U+0085", "U+00A0", "U+1680", "U+2000", "U+2001",
      "U+2002", "U+2003", "U+2004", "U+2005", "U+2006",
      "U+2007", "U+2008", "U+2009", "U+200A", "U+2028",
      "U+2029", "U+202F", "U+205F", "U+3000" }

\* str.split(): the maximal runs of non-whitespace characters
RECURSIVE SplitFrom(_, _, _)
SplitFrom(cs, i, word) ==
    IF i > Len(cs)
    THEN IF word = << >> THEN << >> ELSE << word >>
    ELSE IF cs[i] \in Whitespace
         THEN IF word = << >>
              THEN SplitFrom(cs, i + 1, << >>)
              ELSE << word >> \o SplitFrom(cs, i + 1, << >>)
         ELSE SplitFrom(cs, i + 1, Append(word, cs[i]))

split(cs) == SplitFrom(cs, 1, << >>)

\* key.replace("_", "-")
RECURSIVE ReplaceUnderscores(_)
ReplaceUnderscores(cs) ==
    IF cs = << >> THEN << >>
    ELSE << IF Head(cs) = "_" THEN "-" ELSE Head(cs) >>
         \o ReplaceUnderscores(Tail(cs))

\* sub in cs
Contains(cs, sub) ==
    \E i \in 0..(Len(cs) - Len(sub)) : SubSeq(cs, i + 1, i + Len(sub)) = sub

BackendConfig ==
    << "b", "a", "c", "k", "e", "n", "d", "-", "c", "o", "n", "f", "i", "g" >>

---------------------------------------------------------------------------
(* TerraformDeploymentUtils *)

\* the option names of TerraformCliOptions
TerraformCliOptions ==
    { "state", "target", "var", "var_file", "parallelism", "input",
      "backend_config", "reconfigure" }

\* the default options terraform init does not support
NOT_SUPPORTED_INIT_DEFAULT_OPTIONS == << "state", "parallelism" >>

TERRAFORM_DEFAULT_PARALLELISM == 10

\* TerraformDeploymentUtils.__init__
TerraformDeploymentUtils(state_file_path, terraform_variables, parallelism, resource_targets, var_definition_file) ==
    [ state_file_path |-> state_file_path,
      resource_targets |-> IF resource_targets = PyNone
                           THEN PyList(<< >>) ELSE resource_targets,
      terraform_variables |-> IF terraform_variables = PyNone
                              THEN PyDict(<< >>) ELSE terraform_variables,
      parallelism |-> parallelism,
      var_definition_file |-> var_definition_file,
      input |-> PyBool(FALSE) ]

\* the keys of a dict
Keys(d) == { d[i].key : i \in 1..Len(d) }

\* d[k]
Get(d, k) == d[CHOOSE i \in 1..Len(d) : d[i].key = k].val

\* d[k] = v: an existing key keeps its place, a new key goes last
Put(d, k, v) ==
    IF k \in Keys(d)
    THEN [i \in 1..Len(d) |-> IF d[i].key = k THEN Item(k, v) ELSE d[i]]
    ELSE Append(d, Item(k, v))

\* {**d, **e}
RECURSIVE Merge(_, _)
Merge(d, e) ==
    IF e = << >> THEN d
    ELSE Merge(Put(d, Head(e).key, Head(e).val), Tail(e))

\* d.pop(k, None)
RECURSIVE Pop(_, _)
Pop(d, k) ==
    IF d = << >> THEN << >>
    ELSE IF Head(d).key = k THEN Pop(Tail(d), k)
         ELSE << Head(d) >> \o Pop(Tail(d), k)

\* for default_option in options: d.pop(default_option, None)
RECURSIVE PopAll(_, _)
PopAll(d, options) ==
    IF options = << >> THEN d
    ELSE PopAll(Pop(d, Head(options)), Tail(options))

\* the six default options of an instance
DefaultOptions(self) ==
    << Item("state", self.state_file_path),
       Item("target", self.resource_targets),
       Item("var", self.terraform_variables),
       Item("var_file", self.var_definition_file),
       Item("parallelism", self.parallelism),
       Item("input", self.input) >>

\* get_default_options removing the unsupported options before it applies
\* the caller's input_options
get_default_options_pop_first(self, terraform_command, input_options) ==
    IF terraform_command = "init"
    THEN Merge(PopAll(DefaultOptions(self), NOT_SUPPORTED_INIT_DEFAULT_OPTIONS),
               input_options)
    ELSE Merge(DefaultOptions(self), input_options)

\* TerraformDeploymentUtils.get_default_options
get_default_options(self, terraform_command, input_options) ==
    LET return_dict == Merge(DefaultOptions(self), input_options)
    IN  IF terraform_command = "init"
        THEN PopAll(return_dict, NOT_SUPPORTED_INIT_DEFAULT_OPTIONS)
        ELSE return_dict

\* the tokens of one option of get_command_list
OptionTokens(k, value) ==
    LET key == ReplaceUnderscores(k)
    IN  CASE value.kind = "list" ->
                [i \in 1..Len(value.val) |->
                    << "-" >> \o key \o << "=" >> \o Format(value.val[i])]
          [] value.kind = "dict" ->
                IF Contains(key, BackendConfig)
                THEN [i \in 1..Len(value.val) |->
                        << "-" >> \o BackendConfig \o << " " >>
                        \o value.val[i].key \o << "=" >>
                        \o Format(value.val[i].val)]
                ELSE << >>
          [] value.kind = "bool" ->
                << << "-" >> \o key \o << "=" >>
                   \o (IF value.val THEN << "t", "r", "u", "e" >>
                       ELSE << "f", "a", "l", "s", "e" >>) >>
          [] value.kind = "NoneType" -> << >>
          [] OTHER -> << << "-" >> \o key \o << "=" >> \o Format(value) >>

\* the loop of get_command_list over kwargs.items()
RECURSIVE AppendOptions(_, _)
AppendOptions(commands_list, kwargs) ==
    IF kwargs = << >> THEN commands_list
    ELSE AppendOptions(commands_list
                         \o OptionTokens(Head(kwargs).key, Head(kwargs).val),
                       Tail(kwargs))

\* get_command_list putting the positional args before the options
get_command_list_args_first(command, args, kwargs) ==
    AppendOptions(split(command) \o args, kwargs)

\* TerraformDeploymentUtils.get_command_list
get_command_list(command, args, kwargs) ==
    AppendOptions(split(command), kwargs) \o args

---------------------------------------------------------------------------
(* pid_service/utils.py *)

PIDProtocol ==
    { Member("PIDProtocol", v) :
        v \in {"UNION_PID", "PS3I_M_TO_M", "UNION_PID_MULTIKEY"} }

UNION_PID_MULTIKEY == Member("PIDProtocol", "UNION_PID_MULTIKEY")

DEFAULT_PID_PROTOCOL == Member("PIDProtocol", "UNION_PID")

\* get_pid_protocol_from_num_shards choosing multikey for either reason
get_pid_protocol_from_num_shards_or(num_pid_containers, multikey_enabled) ==
    IF num_pid_containers = 1 \/ multikey_enabled
    THEN UNION_PID_MULTIKEY
    ELSE DEFAULT_PID_PROTOCOL

get_pid_protocol_from_num_shards(num_pid_containers, multikey_enabled) ==
    IF num_pid_containers = 1 /\ multikey_enabled
    THEN UNION_PID_MULTIKEY
    ELSE DEFAULT_PID_PROTOCOL

pid_should_use_row_numbers(pid_use_row_numbers, pid_protocol) ==
    IF pid_use_row_numbers /\ pid_protocol # UNION_PID_MULTIKEY
    THEN TRUE
    ELSE FALSE

---------------------------------------------------------------------------
(* Calls of the utility functions *)

MaxShards == 3

MaxOptions == 2

\* the instances callers build
UtilsInstances ==
    << TerraformDeploymentUtils(PyNone, PyNone,
                                PyInt(TERRAFORM_DEFAULT_PARALLELISM),
                                PyNone, PyNone),
       TerraformDeploymentUtils(PyStr(<< "s", ".", "t", "f" >>),
                                PyDict(<< Item(<< "k" >>, PyStr(<< "v" >>)) >>),
                                PyInt(TERRAFORM_DEFAULT_PARALLELISM + 1),
                                PyList(<< PyStr(<< "r" >>) >>),
                                PyStr(<< "v", "f" >>)) >>

TerraformCommands == {"init", "apply", "destroy"}

\* the input_options callers pass
InputOptions ==
    << << >>,
       << Item("state", PyStr(<< "u" >>)) >>,
       << Item("reconfigure", PyBool(TRUE)) >>,
       << Item("parallelism", PyInt(2)),
          Item("backend_config", PyDict(<< Item(<< "k" >>, PyStr(<< "v" >>)) >>)),
          Item("input", PyBool(TRUE)) >> >>

CommandStrings ==
    << << "t", "f", " ", "a", "p" >>,
       << " ", "t", "f", "\t", " ", "a", " " >>,
       << "t", "f", "\n", "a", "\f", "p", "\r" >>,
       << "t", "f", "U+2003", "a", "U+00E9", "U+3000" >>,
       << >> >>

\* the options callers pass to get_command_list
OptionPool ==
    << Item(<< "a", "u", "t", "o", "_", "a", "p", "p", "r", "o", "v", "e" >>,
            PyBool(TRUE)),
       Item(<< "i", "n", "p", "u", "t" >>, PyBool(FALSE)),
       Item(<< "t", "a", "r", "g", "e", "t" >>,
            PyList(<< PyStr(<< "x" >>), PyStr(<< "y" >>) >>)),
       Item(<< "v", "a", "r", "_", "f", "i", "l", "e" >>, PyNone),
       Item(<< "p", "a", "r", "a", "l", "l", "e", "l", "i", "s", "m" >>,
            PyInt(TERRAFORM_DEFAULT_PARALLELISM)),
       Item(<< "l", "o", "c", "k", "_", "t", "i", "m", "e", "o", "u", "t" >>,
            PyStr(<< "5", "s" >>)),
       Item(<< "b", "a", "c", "k", "e", "n", "d", "_", "c", "o", "n", "f", "i", "g" >>,
            PyDict(<< Item(<< "k" >>, PyStr(<< "v" >>)),
                      Item(<< "r" >>, PyNone),
                      Item(<< "e" >>, PyBool(FALSE)) >>)),
       Item(<< "v", "a", "r" >>,
            PyDict(<< Item(<< "k" >>, PyStr(<< "v" >>)) >>)),
       Item(<< "r", "e", "p", "l", "a", "c", "e" >>,
            PyList(<< PyNone, PyBool(TRUE), PyInt(0 - 3), PyStr(<< >>) >>)) >>

PositionalArgs == << << >>, << << "d", "i", "r" >> >> >>

\* the kwargs built from a choice of distinct options
Kwargs(choice) == [i \in 1..Len(choice) |-> OptionPool[choice[i]]]

OptionChoices ==
    { c \in UNION { [1..n -> 1..Len(OptionPool)] : n \in 0..MaxOptions } :
        \A i, j \in 1..Len(c) : i # j => c[i] # c[j] }

UtilVars == <<state, entity, now, calls, op, result, log, status_writes,
              rejected>>

CallGetDefaultOptions ==
    /\ fn.name = "none"
    /\ \E i \in 1..Len(UtilsInstances), c \in TerraformCommands,
          j \in 1..Len(InputOptions) :
        fn' = [name |-> "get_default_options",
               args |-> [self |-> UtilsInstances[i], terraform_command |-> c,
                         input_options |-> InputOptions[j]],
               ret |-> get_default_options(UtilsInstances[i], c, InputOptions[j])]
    /\ UNCHANGED UtilVars

CallGetCommandList ==
    /\ fn.name = "none"
    /\ \E i \in 1..Len(CommandStrings), a \in 1..Len(PositionalArgs),
          c \in OptionChoices :
        fn' = [name |-> "get_command_list",
               args |-> [command |-> CommandStrings[i],
                         args |-> PositionalArgs[a],
                         kwargs |-> Kwargs(c)],
               ret |-> get_command_list(CommandStrings[i], PositionalArgs[a],
                                        Kwargs(c))]
    /\ UNCHANGED UtilVars

CallGetPidProtocol ==
    /\ fn.name = "none"
    /\ \E n \in 0..MaxShards, m \in BOOLEAN :
        fn' = [name |-> "get_pid_protocol_from_num_shards",
               args |-> [num_pid_containers |-> n, multikey_enabled |-> m],
               ret |-> get_pid_protocol_from_num_shards(n, m)]
    /\ UNCHANGED UtilVars

CallPidShouldUseRowNumbers ==
    /\ fn.name = "none"
    /\ \E b \in BOOLEAN, p \in PIDProtocol :
        fn' = [name |-> "pid_should_use_row_numbers",
               args |-> [pid_use_row_numbers |-> b, pid_protocol |-> p],
               ret |-> pid_should_use_row_numbers(b, p)]
    /\ UNCHANGED UtilVars

UtilNext ==
    \/ CallGetDefaultOptions
    \/ CallGetCommandList
    \/ CallGetPidProtocol
    \/ CallPidShouldUseRowNumbers

UtilSpec == Init /\ [][UtilNext]_vars

---------------------------------------------------------------------------
(* Properties of the utility functions *)

\* the value get_default_options takes from the instance for a default option
InstanceValue(self, k) ==
    CASE k = "state" -> self.state_file_path
      [] k = "target" -> self.resource_targets
      [] k = "var" -> self.terraform_variables
      [] k = "var_file" -> self.var_definition_file
      [] k = "parallelism" -> self.parallelism
      [] k = "input" -> self.input

\* C11: get_default_options returns the six default options overridden by
\* input_options; for "init" every option of the denylist is absent, also
\* when the caller supplied it, and for every other command nothing is removed.
C11_DefaultOptions ==
    fn.name = "get_default_options" =>
        LET a == fn.args
            six == {"state", "target", "var", "var_file", "parallelism", "input"}
            supplied == Keys(a.input_options)
            denied == { NOT_SUPPORTED_INIT_DEFAULT_OPTIONS[i] :
                        i \in 1..Len(NOT_SUPPORTED_INIT_DEFAULT_OPTIONS) }
            expected == IF a.terraform_command = "init"
                        THEN (six \cup supplied) \ denied
                        ELSE six \cup supplied
        IN  /\ Keys(fn.ret) = expected
            /\ Len(fn.ret) = Cardinality(expected)
            /\ \A k \in expected :
                 Get(fn.ret, k) = IF k \in supplied
                                  THEN Get(a.input_options, k)
                                  ELSE InstanceValue(a.self, k)

\* "init" with a caller-supplied state option: state is absent, input is kept
C11_Witness ==
    /\ fn.name = "get_default_options"
    /\ fn.args.terraform_command = "init"
    /\ "state" \in Keys(fn.args.input_options)
    /\ "state" \notin Keys(fn.ret)
    /\ "input" \in Keys(fn.ret)

\* the option name with hyphens for underscores
Hyphenated(k) == [i \in 1..Len(k) |-> IF k[i] = "_" THEN "-" ELSE k[i]]

\* the flag text "-name=text"
Flag(k, text) == << "-" >> \o Hyphenated(k) \o << "=" >> \o text

\* the decimal digits of a natural number, most significant first
RECURSIVE Decimal(_)
Decimal(n) ==
    (IF n >= 10 THEN Decimal(n \div 10) ELSE << >>)
    \o << << "0", "1", "2", "3", "4", "5", "6", "7", "8", "9" >>[(n % 10) + 1] >>

\* the text Python prints for an element: None, True, False, the decimal
\* number, the string itself
Text(v) ==
    IF v.kind = "str" THEN v.val
    ELSE IF v.kind = "int"
         THEN (IF v.val < 0 THEN << "-" >> \o Decimal(0 - v.val)
               ELSE Decimal(v.val))
    ELSE IF v.kind = "bool"
         THEN (IF v.val THEN << "T", "r", "u", "e" >>
               ELSE << "F", "a", "l", "s", "e" >>)
    ELSE << "N", "o", "n", "e" >>

\* the tokens an option contributes
ExpectedOption(k, v) ==
    CASE v.kind = "bool" ->
            << Flag(k, IF v.val THEN << "t", "r", "u", "e" >>
                       ELSE << "f", "a", "l", "s", "e" >>) >>
      [] v.kind = "list" -> [i \in 1..Len(v.val) |-> Flag(k, Text(v.val[i]))]
      [] v.kind = "NoneType" -> << >>
      [] v.kind = "dict" ->
            IF Contains(Hyphenated(k), BackendConfig)
            THEN [i \in 1..Len(v.val) |->
                    << "-" >> \o BackendConfig \o << " " >> \o v.val[i].key
                    \o << "=" >> \o Text(v.val[i].val)]
            ELSE << >>
      [] OTHER -> << Flag(k, Text(v)) >>

RECURSIVE ExpectedOptions(_)
ExpectedOptions(kwargs) ==
    IF kwargs = << >> THEN << >>
    ELSE ExpectedOption(Head(kwargs).key, Head(kwargs).val)
         \o ExpectedOptions(Tail(kwargs))

\* the positions of a string where a word starts
WordStarts(cs) ==
    { i \in 1..Len(cs) :
        cs[i] \notin Whitespace /\ (i = 1 \/ cs[i - 1] \in Whitespace) }

\* the word that starts at position i
WordAt(cs, i) ==
    LET last == CHOOSE j \in i..Len(cs) :
                    /\ \A m \in i..j : cs[m] \notin Whitespace
                    /\ (j = Len(cs) \/ cs[j + 1] \in Whitespace)
    IN  SubSeq(cs, i, last)

\* C12: get_command_list returns the whitespace-split command tokens, then
\* the option tokens in the order of the options, then the positional args;
\* a boolean renders as -name=true or -name=false, a list as one -name=element
\* token per element, underscores in names become hyphens, None gives no token.
C12_CommandList ==
    fn.name = "get_command_list" =>
        LET a == fn.args
            r == fn.ret
            starts == WordStarts(a.command)
            n == Cardinality(starts)
            options == ExpectedOptions(a.kwargs)
        IN  /\ Len(r) = n + Len(options) + Len(a.args)
            /\ \A i \in starts :
                 r[Cardinality({ j \in starts : j <= i })] = WordAt(a.command, i)
            /\ SubSeq(r, n + 1, n + Len(options)) = options
            /\ SubSeq(r, n + Len(options) + 1, Len(r)) = a.args

\* a two-word command with a boolean and a list option and a positional arg
C12_Witness ==
    /\ fn.name = "get_command_list"
    /\ Len(fn.args.kwargs) = 2
    /\ fn.args.kwargs[1].val.kind = "bool"
    /\ fn.args.kwargs[2].val.kind = "list"
    /\ Len(fn.args.args) = 1
    /\ Len(fn.ret) = 6
    /\ fn.ret[2] = << "a" >>
    /\ fn.ret[3] = << "-", "a", "u", "t", "o", "-", "a", "p", "p", "r", "o",
                      "v", "e", "=", "t", "r", "u", "e" >>
    /\ fn.ret[5] = << "-", "t", "a", "r", "g", "e", "t", "=", "y" >>

\* C13: get_pid_protocol_from_num_shards returns the multikey protocol
\* exactly when num_pid_containers = 1 and multikey_enabled, and the default
\* protocol otherwise; pid_should_use_row_numbers returns true exactly when
\* the flag is true and the protocol is not the multikey protocol.
C13_PidProtocol ==
    /\ fn.name = "get_pid_protocol_from_num_shards" =>
         LET multikey == fn.args.num_pid_containers = 1
                           /\ fn.args.multikey_enabled
         IN  /\ (fn.ret.value = "UNION_PID_MULTIKEY") <=> multikey
             /\ ~multikey => fn.ret.value = "UNION_PID"
    /\ fn.name = "pid_should_use_row_numbers" =>
         ( fn.ret <=> ( /\ fn.args.pid_use_row_numbers
                        /\ fn.args.pid_protocol.value # "UNION_PID_MULTIKEY" ) )

\* one container with multikey enabled gave the multikey protocol
C13_Witness ==
    /\ fn.name = "get_pid_protocol_from_num_shards"
    /\ fn.args.num_pid_containers = 1
    /\ fn.args.multikey_enabled
    /\ fn.ret.value = "UNION_PID_MULTIKEY"

---------------------------------------------------------------------------
(* Properties of the write path *)

\* the events of the POST_UPDATE hooks of field f, run on the entity obj as
\* it is after the write
ExpectedHookEvents(f, obj) ==
    CASE f = "status" ->
            << Event("condition", "post_status_hook"),
               Event("action", "post_status_hook") >>
      [] f \in {"num_pid_containers", "num_mpc_containers"} ->
            << Event("condition", "num_pid_mpc_containers_hook") >>
            \o ( IF obj["num_pid_containers"] > obj["num_mpc_containers"]
                 THEN << Event("action", "num_pid_mpc_containers_hook") >>
                 ELSE << >> )
      [] OTHER -> << >>

\* C14: every field write on a READY entity runs the mutability check, then
\* the write, then the POST_UPDATE hooks of the field in registration order
\* with their conditions evaluated on the post-write state; when the check
\* fails nothing is written and no hook condition or action runs.
C14_WriteOrder ==
    [][ UpdateCall =>
          LET f == op'.field
              hooks == ExpectedHookEvents(f, [entity EXCEPT ![f] = op'.value])
          IN  /\ log'[1] = Event("check", f)
              /\ IF f \in {"instance_id", "game_type", "tier", "creation_ts"}
                 THEN /\ Len(log') = 1
                      /\ entity' = entity
                      /\ result' = "ImmutableFieldViolation"
                 ELSE /\ Len(log') >= 2 + Len(hooks)
                      /\ log'[2] = Event("write", f)
                      /\ SubSeq(log', 3, 2 + Len(hooks)) = hooks
                      /\ \A i \in (3 + Len(hooks))..Len(log') :
                           log'[i].event \notin {"condition", "action"}
      ]_vars

\* a write of num_mpc_containers went through check, write, condition, action
C14_Witness ==
    /\ state = "READY"
    /\ op.name = "set"
    /\ op.field = "num_mpc_containers"
    /\ Len(log) >= 4
    /\ log[1] = Event("check", "num_mpc_containers")
    /\ log[2] = Event("write", "num_mpc_containers")
    /\ log[3] = Event("condition", "num_pid_mpc_containers_hook")
    /\ log[4] = Event("action", "num_pid_mpc_containers_hook")

\* C15: construction fires no POST_UPDATE hook: the status hook does not
\* run, the supplied status_update_ts is kept and nothing is appended to the
\* supplied status_updates.
C15_NoUpdateHookOnInit ==
    ( /\ state = "READY"
      /\ calls = 0
      /\ op.name = "construct" )
    => /\ entity["status_update_ts"] = op.value["status_update_ts"]
       /\ entity["status_updates"] = op.value["status_updates"]
       /\ \A i \in 1..Len(log) :
            /\ log[i].on # "post_status_hook"
            /\ log[i].event \in {"init", "condition"}

\* constructed at time 2 with status_update_ts 0 and one supplied entry
C15_Witness ==
    /\ state = "READY"
    /\ calls = 0
    /\ op.name = "construct"
    /\ now = 2
    /\ entity["creation_ts"] = 0
    /\ entity["status_update_ts"] = 0
    /\ entity["status_updates"] = << StatusUpdate(PENDING, 1) >>

\* the position of the first event of a kind in a log, 0 when absent
FirstEvent(l, event) ==
    IF \E i \in 1..Len(l) : l[i].event = event
    THEN CHOOSE i \in 1..Len(l) :
            l[i].event = event /\ \A j \in 1..(i - 1) : l[j].event # event
    ELSE 0

\* C16: right after every successful status update the last entry of
\* status_updates is (the new status, the current status_update_ts): the
\* refresh and the append follow the write, and the refresh precedes the append.
C16_LastEntryIsCurrent ==
    [][ ( /\ UpdateCall
          /\ op'.field = "status"
          /\ result' = "ok" )
        => LET history == entity'["status_updates"]
           IN  /\ entity'["status"] = op'.value
               /\ history # << >>
               /\ history[Len(history)] =
                     StatusUpdate(op'.value, entity'["status_update_ts"])
               /\ FirstEvent(log', "write") > 0
               /\ FirstEvent(log', "action") > FirstEvent(log', "write")
      ]_vars

\* a status update at time 2 on an entity whose status_update_ts was 0
C16_Witness ==
    /\ state = "READY"
    /\ op.name = "set"
    /\ op.field = "status"
    /\ op.value = RUNNING
    /\ result = "ok"
    /\ calls = 1
    /\ entity["status_update_ts"] = 2
    /\ entity["status_updates"] =
          << StatusUpdate(PENDING, 1), StatusUpdate(RUNNING, 2) >>

\* C17: tier and creation_ts that got their value from the default count as
\* assigned once the entity is READY: the first write to them fails with the
\* immutability error and the field keeps its default-derived value (None
\* for tier, the clock reading at construction for creation_ts).
C17_DefaultedImmutableRejected ==
    [][ /\ ( ( /\ state = "CONSTRUCTING"
               /\ state' = "READY"
               /\ "tier" \notin DOMAIN op'.value
               /\ "creation_ts" \notin DOMAIN op'.value )
             => /\ entity'["tier"] = None
                /\ entity'["creation_ts"] = now )
        /\ ( ( /\ UpdateCall
               /\ calls = 0
               /\ op.name = "construct"
               /\ "tier" \notin DOMAIN op.value
               /\ "creation_ts" \notin DOMAIN op.value
               /\ op'.field \in {"tier", "creation_ts"} )
             => /\ result' = "ImmutableFieldViolation"
                /\ entity["tier"] = None
                /\ entity'["tier"] = entity["tier"]
                /\ entity'["creation_ts"] = entity["creation_ts"] )
      ]_vars

\* the first write to the defaulted creation_ts (set at time 1) was rejected
C17_Witness ==
    /\ state = "READY"
    /\ calls = 1
    /\ rejected = 1
    /\ op.name = "set"
    /\ op.field = "creation_ts"
    /\ result = "ImmutableFieldViolation"
    /\ entity["tier"] = None
    /\ entity["creation_ts"] = 1
    /\ entity["creation_ts"] # op.value

\* C18: a READY entity stays READY through every update, rejected ones
\* included, and a valid update of a mutable field made afterwards (a status
\* update, a count update keeping num_pid_containers <= num_mpc_containers)
\* succeeds.
C18_StaysReady ==
    [][ /\ (state = "READY" => state' = "READY")
        /\ ( ( /\ UpdateCall
               /\ \/ op'.field = "status"
                  \/ /\ op'.field = "num_pid_containers"
                     /\ op'.value <= entity["num_mpc_containers"]
                  \/ /\ op'.field = "num_mpc_containers"
                     /\ entity["num_pid_containers"] <= op'.value )
             => /\ result' = "ok"
                /\ entity'[op'.field] = op'.value )
      ]_vars

\* a count update accepted right after a rejected update
C18_Witness ==
    /\ state = "READY"
    /\ calls = 2
    /\ rejected = 1
    /\ op.name = "set"
    /\ op.field = "num_mpc_containers"
    /\ result = "ok"
    /\ entity["num_mpc_containers"] = op.value

\* the mutable fields that carry no hook, as the claim lists them
UnhookedFields ==
    { "role", "instances", "num_files_per_mpc_container", "pcs_features",
      "pce_config", "retry_counter", "end_ts", "mpc_compute_concurrency" }

\* C19: a successful update of a mutable field without hook changes only
\* that field; a status update changes only status, status_update_ts and
\* status_updates.
C19_Frame ==
    [][ /\ ( ( UpdateCall /\ op'.field \in UnhookedFields )
             => /\ result' = "ok"
                /\ entity'[op'.field] = op'.value
                /\ \A g \in Fields \ {op'.field} : entity'[g] = entity[g] )
        /\ ( ( UpdateCall /\ op'.field = "status" )
             => \A g \in Fields \ {"status", "status_update_ts", "status_updates"} :
                   entity'[g] = entity[g] )
      ]_vars

\* retry_counter updated after a status update: the history is untouched
C19_Witness ==
    /\ state = "READY"
    /\ calls = 2
    /\ status_writes = 1
    /\ op.name = "set"
    /\ op.field = "retry_counter"
    /\ result = "ok"
    /\ entity["retry_counter"] = 1
    /\ Len(entity["status_updates"]) = 1
    /\ entity["status_update_ts"] = entity["status_updates"][1].status_update_ts

====
